---- MODULE Spec2Model ----
(***************************************************************************)
(* Comparison gadgets of src/lib/provable/gadgets/comparison.ts.           *)
(*                                                                         *)
(* A circuit is an ordered list of constraints over variables: the inputs  *)
(* of the gadget call (variables 1..Len(inp)) followed by the witnesses    *)
(* the gadget introduces with exists().  Field values are linear           *)
(* combinations of variables (as in o1js, where add/sub/scale of Fields    *)
(* build an AST and emit nothing), so the constraint list is symbolic: it  *)
(* is the constraint shape, and it is evaluated under an assignment of     *)
(* values to the variables.                                                *)
(*                                                                         *)
(* One gadget call is run per pass, in constraint-shape mode or in prover  *)
(* mode; in prover mode the witness callbacks run and fill `wit`.  After a *)
(* prover pass the prover may also propose any other values for the        *)
(* witnesses (`adv`): the constraints alone decide what is accepted.       *)
(***************************************************************************)
EXTENDS Integers, Sequences, FiniteSets

\* Largest n / length / number of input bits tried.
MaxLen == 4
\* Number of passes run over the same gadget call.
MaxPasses == 2
\* Field orders tried.  5 and 17 are of the form 2^k + 1, like the Pallas
\* base field (2^254 + small): 2 * 2^(sizeInBits - 2) <= p is tight.
Primes == {5, 7, 17}

\* Variables of a linear combination: index 0 is the constant term.
NumVars == MaxLen + 6

VARIABLES
  p,       \* the field order
  mode,    \* "shape" (constraint-shape pass) or "prover"
  gadget,  \* the gadget called in this run
  inp,     \* values of the input wires (x, y / x / the bits)
  n,       \* the integer argument: n, length or c
  pc,      \* "start", "done" or "error"
  cs,      \* constraints appended to the circuit in this pass, in order
  nw,      \* number of witness variables introduced in this pass
  wit,     \* witness values computed by the callbacks (prover mode only)
  out,     \* the wires returned by the gadget, as linear combinations
  err,     \* "none", "assert" (build-time assert) or "range" (prover guard)
  adv,     \* a candidate assignment of the witnesses, chosen by the prover
  pass,    \* number of the current pass
  ref,     \* constraints appended by the first pass
  refOk,   \* whether the first pass returned normally
  refMode  \* the mode of the first pass

vars == <<p, mode, gadget, inp, n, pc, cs, nw, wit, out, err, adv, pass, ref, refOk, refMode>>

Modes == {"shape", "prover"}
Gadgets == {"lte", "lt", "checkRanges", "compare", "unpack", "any", "isZero"}

-----------------------------------------------------------------------------
(* Field arithmetic (Fp) *)

RECURSIVE Pow2(_)
Pow2(k) == IF k = 0 THEN 1 ELSE 2 * Pow2(k - 1)

\* Fp.sizeInBits: number of bits of the field order
RECURSIVE BitLen(_)
BitLen(v) == IF v = 0 THEN 0 ELSE 1 + BitLen(v \div 2)

SizeInBits(q) == BitLen(q)

FpMul(q, a, b) == (a * b) % q
FpSub(q, a, b) == (a - b) % q
\* Fp.inverse(x) ?? 0n : the inverse, or 0 where there is none
FpInverse(q, a) ==
  IF \E z \in 0..(q - 1) : (z * a) % q = 1
    THEN CHOOSE z \in 0..(q - 1) : (z * a) % q = 1
    ELSE 0

-----------------------------------------------------------------------------
(* Field wires: linear combinations over the circuit's variables *)

Idx == 0..NumVars

Const(q, k) == [i \in Idx |-> IF i = 0 THEN k % q ELSE 0]
Var(v) == [i \in Idx |-> IF i = v THEN 1 ELSE 0]
Add(q, a, b) == [i \in Idx |-> (a[i] + b[i]) % q]
Sub(q, a, b) == [i \in Idx |-> (a[i] - b[i]) % q]
Scale(q, k, a) == [i \in Idx |-> (k * a[i]) % q]

ValOf(vals, i) == IF i = 0 THEN 1 ELSE IF i <= Len(vals) THEN vals[i] ELSE 0

RECURSIVE EvalTo(_, _, _, _)
EvalTo(q, lc, vals, i) ==
  IF i < 0 THEN 0
  ELSE (lc[i] * ValOf(vals, i) + EvalTo(q, lc, vals, i - 1)) % q

\* x.toBigInt(): the value of a wire under an assignment of the variables
Eval(q, lc, vals) == EvalTo(q, lc, vals, NumVars)

\* largest variable a wire mentions (0: a constant)
TopVar(lc) ==
  IF \E i \in 1..NumVars : lc[i] # 0
    THEN CHOOSE i \in 1..NumVars : lc[i] # 0 /\ \A j \in (i + 1)..NumVars : lc[j] = 0
    ELSE 0

-----------------------------------------------------------------------------
(* Constraints *)

\* a * b = c
MulC(a, b, c) == <<"mul", a, b, c>>
\* the caller's rangeCheck(v): v in [0, c)
RangeC(q, v, c) == <<"range", v, [i \in Idx |-> IF i = 0 THEN c ELSE 0], Const(q, 0)>>

Holds(q, k, vals) ==
  IF k[1] = "mul"
    THEN FpMul(q, Eval(q, k[2], vals), Eval(q, k[3], vals)) = Eval(q, k[4], vals)
    ELSE Eval(q, k[2], vals) < k[3][0]

Sat(q, ks, vals) == \A i \in 1..Len(ks) : Holds(q, ks[i], vals)

Max2(a, b) == IF a >= b THEN a ELSE b
TopOf(k) == Max2(TopVar(k[2]), Max2(TopVar(k[3]), TopVar(k[4])))

\* the constraints that mention only variables that have a value hold
PartialSat(q, ks, vals) ==
  \A i \in 1..Len(ks) : TopOf(ks[i]) <= Len(vals) => Holds(q, ks[i], vals)

-----------------------------------------------------------------------------
(* The circuit under construction and the primitives the gadgets use *)

NewCtx == [cs |-> <<>>, nw |-> 0, wit |-> <<>>]

\* exists(k, compute): k fresh witness variables; the callback runs in
\* prover mode only
Exists(m, ctx, k, compute) ==
  [ctx EXCEPT !.nw = @ + k,
              !.wit = IF m = "prover" THEN @ \o compute ELSE @]

\* assertMul(a, b, c)
AssertMul(ctx, a, b, c) == [ctx EXCEPT !.cs = Append(@, MulC(a, b, c))]

\* Faulty variant: the bits are not constrained to be boolean
AssertBoolsNone(ctx, bits) == ctx

\* bits.forEach((b) => b.assertBool()) : b * b = b for each bit, in order
AssertBools(ctx, bits) ==
  [ctx EXCEPT !.cs = @ \o [i \in 1..Len(bits) |-> MulC(bits[i], bits[i], bits[i])]]

\* v.seal(): a fresh variable constrained to equal the expression
Seal(q, m, iv, ctx, x) ==
  LET v  == Var(Len(iv) + ctx.nw + 1)
      c1 == Exists(m, ctx, 1, <<Eval(q, x, iv \o ctx.wit)>>)
  IN  [ctx |-> AssertMul(c1, x, Const(q, 1), v), res |-> v]

\* a.and(b): a fresh variable constrained to be the product
And(q, m, iv, ctx, a, b) ==
  LET v  == Var(Len(iv) + ctx.nw + 1)
      vs == iv \o ctx.wit
      c1 == Exists(m, ctx, 1, <<FpMul(q, Eval(q, a, vs), Eval(q, b, vs))>>)
  IN  [ctx |-> AssertMul(c1, a, b, v), res |-> v]

\* b.not()
Not(q, b) == Sub(q, Const(q, 1), b)

-----------------------------------------------------------------------------
(* The gadgets *)

\* Faulty variant: the shift is off by one
UnpackBitsOffByOne(x0, length) == [k \in 1..length |-> (x0 \div Pow2(k)) % 2]

\* (x0 >> k) & 1 for k in [0, length)
UnpackBits(x0, length) == [k \in 1..length |-> (x0 \div Pow2(k - 1)) % 2]

\* Faulty variant: bit i is weighted 2^(i+1)
RECURSIVE UnpackLcShifted(_, _, _)
UnpackLcShifted(q, bits, k) ==
  IF k = 0 THEN Const(q, 0)
  ELSE Add(q, UnpackLcShifted(q, bits, k - 1), Scale(q, Pow2(k) % q, bits[k]))

\* bits.reduce((acc, b, i) => acc.add(b.mul(1n << i)), 0)
RECURSIVE UnpackLc(_, _, _)
UnpackLc(q, bits, k) ==
  IF k = 0 THEN Const(q, 0)
  ELSE Add(q, UnpackLc(q, bits, k - 1), Scale(q, Pow2(k - 1) % q, bits[k]))

Unpack(q, m, iv, ctx, x, length) ==
  LET base == Len(iv) + ctx.nw
      c1   == Exists(m, ctx, length, UnpackBits(Eval(q, x, iv \o ctx.wit), length))
      bits == [k \in 1..length |-> Var(base + k)]
      c2   == AssertBools(c1, bits)
      lc   == UnpackLc(q, bits, length)
  IN  [ctx |-> AssertMul(c2, lc, Const(q, 1), x), res |-> bits]

\* Faulty variant: the constraint z * x = 1 - b is missing
IsZeroNoInverse(q, m, iv, ctx, x) ==
  LET xmy  == Eval(q, x, iv \o ctx.wit)
      z0   == FpInverse(q, xmy)
      b0   == FpSub(q, 1, FpMul(q, z0, xmy))
      b    == Var(Len(iv) + ctx.nw + 1)
      c1   == Exists(m, ctx, 2, <<b0, z0>>)
  IN  [ctx |-> AssertMul(c1, b, x, Const(q, 0)), res |-> b]

\* Faulty variant: b * x = 0 is asserted inside the witness callback, so in prover
\* mode only
IsZeroProverOnly(q, m, iv, ctx, x) ==
  LET xmy  == Eval(q, x, iv \o ctx.wit)
      z0   == FpInverse(q, xmy)
      b0   == FpSub(q, 1, FpMul(q, z0, xmy))
      base == Len(iv) + ctx.nw
      b    == Var(base + 1)
      z    == Var(base + 2)
      c1   == Exists(m, ctx, 2, <<b0, z0>>)
      c2   == IF m = "prover" THEN AssertMul(c1, b, x, Const(q, 0)) ELSE c1
  IN  [ctx |-> AssertMul(c2, z, x, Sub(q, Const(q, 1), b)), res |-> b]

IsZero(q, m, iv, ctx, x) ==
  LET xmy  == Eval(q, x, iv \o ctx.wit)
      z0   == FpInverse(q, xmy)
      b0   == FpSub(q, 1, FpMul(q, z0, xmy))
      base == Len(iv) + ctx.nw
      b    == Var(base + 1)
      z    == Var(base + 2)
      c1   == Exists(m, ctx, 2, <<b0, z0>>)
      c2   == AssertMul(c1, b, x, Const(q, 0))
  IN  [ctx |-> AssertMul(c2, z, x, Sub(q, Const(q, 1), b)), res |-> b]

\* xs.reduce((a, b) => a.add(b.toField()), 0)
RECURSIVE SumLc(_, _, _)
SumLc(q, xs, k) ==
  IF k = 0 THEN Const(q, 0) ELSE Add(q, SumLc(q, xs, k - 1), xs[k])

\* Faulty variant: the result is not negated
AnyNoNot(q, m, iv, ctx, xs) ==
  LET allZero == IsZero(q, m, iv, ctx, SumLc(q, xs, Len(xs)))
  IN  [ctx |-> allZero.ctx, res |-> allZero.res]

Any(q, m, iv, ctx, xs) ==
  LET allZero == IsZero(q, m, iv, ctx, SumLc(q, xs, Len(xs)))
  IN  [ctx |-> allZero.ctx, res |-> Not(q, allZero.res)]

\* Faulty variant: > instead of >=
CheckRangesAsProverStrict(m, x0, y0, c) ==
  m = "prover" /\ (x0 > c \/ y0 > c)

\* TRUE when the prover block throws
CheckRangesAsProver(m, x0, y0, c) ==
  m = "prover" /\ (x0 >= c \/ y0 >= c)

\* Faulty variant: one bit more is allowed
MaxLengthOffByOne(q) == SizeInBits(q) - 1

\* let maxLength = Fp.sizeInBits - 2
MaxLength(q) == SizeInBits(q) - 2

CompareCompatible(q, m, iv, ctx, x, y, nn) ==
  LET c  == Pow2(nn)
      vs == iv \o ctx.wit
  IN  IF ~(nn <= MaxLength(q))
        THEN [ctx |-> ctx, res |-> <<>>, err |-> "assert"]
      ELSE IF CheckRangesAsProver(m, Eval(q, x, vs), Eval(q, y, vs), c)
        THEN [ctx |-> ctx, res |-> <<>>, err |-> "range"]
      ELSE
        LET z           == Sub(q, Add(q, Const(q, c), y), x)
            zBits       == Unpack(q, m, iv, ctx, z, nn + 1)
            lessOrEqual == zBits.res[nn + 1]
            prefix      == SubSeq(zBits.res, 1, nn)
            notAllZeros == Any(q, m, iv, zBits.ctx, prefix)
            less        == And(q, m, iv, notAllZeros.ctx, lessOrEqual, notAllZeros.res)
        IN  [ctx |-> less.ctx, res |-> <<lessOrEqual, less.res>>, err |-> "none"]

\* Faulty variant: x - y instead of y - x
AssertLessThanOrEqualGenericSwapped(q, m, iv, ctx, x, y, c) ==
  LET z == Seal(q, m, iv, ctx, Sub(q, x, y))
  IN  [z.ctx EXCEPT !.cs = Append(@, RangeC(q, z.res, c))]

AssertLessThanOrEqualGeneric(q, m, iv, ctx, x, y, c) ==
  LET z == Seal(q, m, iv, ctx, Sub(q, y, x))
  IN  [z.ctx EXCEPT !.cs = Append(@, RangeC(q, z.res, c))]

\* Faulty variant: the subtraction of 1 is missing
AssertLessThanGenericNoDec(q, m, iv, ctx, x, y, c) ==
  LET z == Seal(q, m, iv, ctx, Sub(q, y, x))
  IN  [z.ctx EXCEPT !.cs = Append(@, RangeC(q, z.res, c))]

AssertLessThanGeneric(q, m, iv, ctx, x, y, c) ==
  LET z == Seal(q, m, iv, ctx, Sub(q, Sub(q, y, Const(q, 1)), x))
  IN  [z.ctx EXCEPT !.cs = Append(@, RangeC(q, z.res, c))]

-----------------------------------------------------------------------------
(* The state machine *)

Fld(q) == 0..(q - 1)

BitSeqs(q) ==
  UNION {[1..k -> {0, 1}] : k \in {j \in 0..MaxLen : j < q}}

Init ==
  /\ p \in Primes
  /\ mode \in Modes
  /\ gadget \in Gadgets
  /\ \/ /\ gadget \in {"lte", "lt", "checkRanges"}
        /\ inp \in [1..2 -> Fld(p)]
        /\ n \in 0..((p + 1) \div 2)
     \/ /\ gadget = "compare"
        /\ inp \in [1..2 -> Fld(p)]
        /\ n \in 0..MaxLen
     \/ /\ gadget = "unpack"
        /\ inp \in [1..1 -> Fld(p)]
        /\ n \in 0..MaxLen
     \/ /\ gadget = "isZero"
        /\ inp \in [1..1 -> Fld(p)]
        /\ n = 0
     \/ /\ gadget = "any"
        /\ inp \in BitSeqs(p)
        /\ n = 0
  /\ pc = "start"
  /\ cs = <<>>
  /\ nw = 0
  /\ wit = <<>>
  /\ out = <<>>
  /\ err = "none"
  /\ adv = <<>>
  /\ pass = 1
  /\ ref = <<>>
  /\ refOk = FALSE
  /\ refMode = mode

Inputs == [i \in 1..Len(inp) |-> Var(i)]

Return(ctx, res) ==
  /\ cs' = ctx.cs
  /\ nw' = ctx.nw
  /\ wit' = ctx.wit
  /\ out' = res
  /\ err' = "none"
  /\ pc' = "done"
  /\ UNCHANGED <<p, mode, gadget, inp, n, adv, pass, ref, refOk, refMode>>

Throw(e) ==
  /\ err' = e
  /\ pc' = "error"
  /\ UNCHANGED <<p, mode, gadget, inp, n, cs, nw, wit, out, adv, pass, ref, refOk, refMode>>

RunLessThanOrEqual ==
  /\ pc = "start" /\ gadget = "lte"
  /\ Return(AssertLessThanOrEqualGeneric(p, mode, inp, NewCtx, Var(1), Var(2), n), <<>>)

RunLessThan ==
  /\ pc = "start" /\ gadget = "lt"
  /\ Return(AssertLessThanGeneric(p, mode, inp, NewCtx, Var(1), Var(2), n), <<>>)

RunCheckRanges ==
  /\ pc = "start" /\ gadget = "checkRanges"
  /\ IF CheckRangesAsProver(mode, inp[1], inp[2], n)
       THEN Throw("range")
       ELSE Return(NewCtx, <<>>)

RunCompare ==
  /\ pc = "start" /\ gadget = "compare"
  /\ LET r == CompareCompatible(p, mode, inp, NewCtx, Var(1), Var(2), n)
     IN  IF r.err # "none" THEN Throw(r.err) ELSE Return(r.ctx, r.res)

RunUnpack ==
  /\ pc = "start" /\ gadget = "unpack"
  /\ LET r == Unpack(p, mode, inp, NewCtx, Var(1), n)
     IN  Return(r.ctx, r.res)

RunAny ==
  /\ pc = "start" /\ gadget = "any"
  /\ LET r == Any(p, mode, inp, NewCtx, Inputs)
     IN  Return(r.ctx, <<r.res>>)

RunIsZero ==
  /\ pc = "start" /\ gadget = "isZero"
  /\ LET r == IsZero(p, mode, inp, NewCtx, Var(1))
     IN  Return(r.ctx, <<r.res>>)

\* The prover is free to give a witness any value: the next witness variable
\* gets a value that the constraints it completes accept.
ProverAssign ==
  /\ pc = "done" /\ mode = "prover"
  /\ Len(adv) < nw
  /\ \E v \in Fld(p) :
       /\ PartialSat(p, cs, inp \o Append(adv, v))
       /\ adv' = Append(adv, v)
  /\ UNCHANGED <<p, mode, gadget, inp, n, pc, cs, nw, wit, out, err, pass, ref, refOk, refMode>>

\* The same gadget call is run again, on a fresh circuit
NextPass ==
  /\ pc \in {"done", "error"}
  /\ adv = <<>>
  /\ pass < MaxPasses
  /\ mode' \in Modes
  /\ pass' = pass + 1
  /\ ref' = IF pass = 1 THEN cs ELSE ref
  /\ refOk' = IF pass = 1 THEN pc = "done" ELSE refOk
  /\ refMode' = IF pass = 1 THEN mode ELSE refMode
  /\ pc' = "start"
  /\ cs' = <<>>
  /\ nw' = 0
  /\ wit' = <<>>
  /\ out' = <<>>
  /\ err' = "none"
  /\ UNCHANGED <<p, gadget, inp, n, adv>>

Next ==
  \/ RunLessThanOrEqual
  \/ RunLessThan
  \/ RunCheckRanges
  \/ RunCompare
  \/ RunUnpack
  \/ RunAny
  \/ RunIsZero
  \/ ProverAssign
  \/ NextPass

Spec == Init /\ [][Next]_vars

-----------------------------------------------------------------------------
(* Properties *)

B(cond) == IF cond THEN 1 ELSE 0

Proved == pc = "done" /\ mode = "prover"

\* the witness computed by the gadget's callbacks satisfies every constraint
Honest == Sat(p, cs, inp \o wit)

\* the prover's candidate gives every witness a value and satisfies every
\* constraint
Accepted == Len(adv) = nw /\ Sat(p, cs, inp \o adv)

OutVal(i, w) == Eval(p, out[i], inp \o w)

RECURSIVE Weighted(_, _)
Weighted(bits, k) ==
  IF k = 0 THEN 0 ELSE bits[k] * Pow2(k - 1) + Weighted(bits, k - 1)

InRange(c) == 2 * c <= p /\ inp[1] < c /\ inp[2] < c

\* C1: assertLessThanOrEqualGeneric with 2c <= p and 0 <= x, y < c: the
\* constraints have a satisfying assignment iff x <= y (the computed witness
\* satisfies them when x <= y, and no assignment does when x > y).
C1_LessThanOrEqualIff ==
  (gadget = "lte" /\ Proved /\ InRange(n)) =>
     /\ Honest <=> inp[1] <= inp[2]
     /\ Accepted => inp[1] <= inp[2]

C1_Witness ==
  /\ gadget = "lte" /\ Proved /\ InRange(n)
  /\ 2 * n = p - 1
  /\ inp[1] = inp[2]
  /\ Accepted /\ adv = wit

\* C2: assertLessThanGeneric with 2c <= p and 0 <= x, y < c (y = 0
\* included): the constraints have a satisfying assignment iff x < y.
C2_LessThanIff ==
  (gadget = "lt" /\ Proved /\ InRange(n)) =>
     /\ Honest <=> inp[1] < inp[2]
     /\ Accepted => inp[1] < inp[2]

C2_Witness ==
  /\ gadget = "lt" /\ Proved /\ InRange(n)
  /\ inp[1] = 0 /\ inp[2] = 0
  /\ ~Honest
  /\ Eval(p, Var(3), inp \o wit) = p - 1

\* C3: compareCompatible with n <= sizeInBits - 2 and x, y < 2^n: every
\* satisfying assignment has lessOrEqual = 1 iff x <= y and less = 1 iff
\* x < y, and the computed witness is a satisfying assignment.
C3_CompareSound ==
  (gadget = "compare" /\ Proved /\ inp[1] < Pow2(n) /\ inp[2] < Pow2(n)) =>
     /\ n <= SizeInBits(p) - 2
     /\ Honest
     /\ OutVal(1, wit) = B(inp[1] <= inp[2])
     /\ OutVal(2, wit) = B(inp[1] < inp[2])
     /\ Accepted =>
          /\ OutVal(1, adv) = B(inp[1] <= inp[2])
          /\ OutVal(2, adv) = B(inp[1] < inp[2])

C3_Witness ==
  /\ gadget = "compare" /\ Proved
  /\ p = 17 /\ n = 3 /\ inp = <<5, 5>>
  /\ Accepted /\ adv # wit
  /\ OutVal(1, adv) = 1 /\ OutVal(2, adv) = 0

\* C4: isZero: every (b, z) satisfying b*x = 0 and z*x = 1 - b has b = 1 if
\* x = 0 and b = 0 otherwise, and the computed (b, z) satisfies both.
C4_IsZeroSound ==
  (gadget = "isZero" /\ Proved) =>
     /\ Honest
     /\ OutVal(1, wit) = B(inp[1] = 0)
     /\ Accepted => OutVal(1, adv) = B(inp[1] = 0)

C4_Witness ==
  /\ gadget = "isZero" /\ Proved
  /\ inp[1] = 0
  /\ Accepted /\ adv # wit
  /\ OutVal(1, adv) = 1

\* C5: unpack with x < 2^length: the computed bits are 0 or 1, their weighted
\* sum is x, and all constraints are satisfied.
C5_UnpackComplete ==
  (gadget = "unpack" /\ Proved /\ inp[1] < Pow2(n)) =>
     /\ Len(wit) = n
     /\ \A i \in 1..n : wit[i] \in {0, 1}
     /\ Weighted(wit, n) = inp[1]
     /\ Honest

C5_Witness ==
  /\ gadget = "unpack" /\ Proved
  /\ n = 3 /\ inp[1] = 6
  /\ wit = <<0, 1, 1>>

\* C6: unpack with x >= 2^length: no assignment satisfies the constraints; in
\* particular the computed bits do not.
C6_UnpackRejects ==
  (gadget = "unpack" /\ Proved /\ inp[1] >= Pow2(n)) =>
     /\ ~Honest
     /\ ~Accepted

C6_Witness ==
  /\ gadget = "unpack" /\ Proved
  /\ n = 2 /\ inp[1] = 6
  /\ Len(adv) = 1
  /\ wit = <<0, 1>>

BitAssignments == [1..n -> {0, 1}]

Unique ==
  Accepted =>
     /\ inp[1] < Pow2(n)
     /\ \A a \in BitAssignments : Sat(p, cs, inp \o a) => a = adv

\* C7 as stated: for every length, the constraints force x < 2^length and admit
\* exactly one bit assignment.
C7_UniqueAnyLength ==
  (gadget = "unpack" /\ Proved) => Unique

\* C7: for every length with 2^length <= p, the constraints force
\* x < 2^length and admit exactly one bit assignment.
C7_UniqueBelowOrder ==
  (gadget = "unpack" /\ Proved /\ Pow2(n) <= p) => Unique

C7_Witness ==
  /\ gadget = "unpack" /\ Proved
  /\ p = 17 /\ n = 4 /\ inp[1] = 11
  /\ Accepted

\* C8: checkRangesAsProver raises in prover mode exactly when x >= c or
\* y >= c, never raises in constraint-shape mode, and adds no constraint and
\* no witness; compareCompatible runs it with c = 2^n.
C8_RangeGuard ==
  /\ (gadget = "checkRanges" /\ pc # "start") =>
        /\ pc = "error" <=> (mode = "prover" /\ (inp[1] >= n \/ inp[2] >= n))
        /\ pc = "error" => err = "range"
        /\ cs = <<>> /\ nw = 0 /\ wit = <<>>
  /\ (gadget = "compare" /\ pc # "start" /\ n <= SizeInBits(p) - 2) =>
        /\ pc = "error" <=>
             (mode = "prover" /\ (inp[1] >= Pow2(n) \/ inp[2] >= Pow2(n)))
        /\ pc = "error" => err = "range" /\ cs = <<>> /\ nw = 0

C8_Witness ==
  /\ gadget = "checkRanges" /\ pc = "error" /\ err = "range"
  /\ mode = "prover"
  /\ inp[1] < n /\ inp[2] = n

\* C9: any over boolean wires (the empty sequence included): the result is 1
\* iff some element is 1, in every satisfying assignment, and the computed
\* witness is one.
C9_AnyIff ==
  (gadget = "any" /\ Proved) =>
     /\ Honest
     /\ OutVal(1, wit) = B(\E i \in 1..Len(inp) : inp[i] = 1)
     /\ Accepted => OutVal(1, adv) = B(\E i \in 1..Len(inp) : inp[i] = 1)

C9_Witness ==
  /\ gadget = "any" /\ Proved
  /\ inp = <<0, 1, 0, 1>>
  /\ Accepted
  /\ OutVal(1, adv) = 1

ShapeGadgets == {"compare", "unpack", "any", "isZero"}

====
